---- MODULE Spec2Model ----
(***************************************************************************)
(* Model of upc_scanner.py: a Streamlit script that is re-executed from    *)
(* top to bottom on every user interaction.  One script run is the chain   *)
(* of steps OpenImage -> ScanUPC -> ScanText -> DisplayEdit -> SaveHandler *)
(* and the user interactions (upload, remove, edit, click) start a run.    *)
(*                                                                         *)
(* title, brand, image and upc are opaque strings (only emptiness and      *)
(* equality are observed by the code); model_code and the OCR text are     *)
(* sequences of one-character strings because the code looks inside them   *)
(* (regular expression, split, strip, base64).  The empty string of such a *)
(* value is the empty sequence.                                            *)
(***************************************************************************)
EXTENDS Integers, Sequences, FiniteSets, TLC

VARIABLES
    car,        \* st.session_state['current_car']
    uploaded,   \* value of the file_uploader widget: 0 = no file, else an image
    widgets,    \* the three text_input widgets: default they were built with, value
    clicked,    \* the Save button returns True in this run
    sheet,      \* rows of the Google sheet, in order
    pc,         \* position of the script run
    run,        \* locals and user-visible output of the current script run
    pre,        \* the record when the current script run started
    interactions \* number of user interactions so far

vars == <<car, uploaded, widgets, clicked, sheet, pc, run, pre, interactions>>

----------------------------------------------------------------------------
(* Bounds *)
MaxRows == 2
MaxInteractions == 3
MaxTokens == 4

----------------------------------------------------------------------------
(* Characters and strings of characters *)
Letters == {"A","B","C","D","E","F","G","H","I","J","K","L","M",
            "N","O","P","Q","R","S","T","U","V","W","X","Y","Z"}
Digits == {"0","1","2","3","4","5","6","7","8","9"}

\* the character class [A-Z0-9] of the pattern
CodeChars == Letters \cup Digits

Whitespace == {" ", "\n", "\t"}

Min(S) == CHOOSE x \in S : \A y \in S : x <= y

\* the pattern [A-Z0-9]{5}-[A-Z0-9]{4} matches text at position i
MatchAt(text, i) ==
    /\ i >= 1
    /\ i + 9 <= Len(text)
    /\ \A k \in 0..4 : text[i + k] \in CodeChars
    /\ text[i + 5] = "-"
    /\ \A k \in 6..9 : text[i + k] \in CodeChars

\* re.search: the leftmost match, or None (the empty sequence here; a match
\* has ten characters, so it is never confused with None)
NoMatch == <<>>

extract_model_code_NoHyphen(text) ==
    LET starts == {i \in 1..Len(text) :
                     i + 8 <= Len(text) /\ \A k \in 0..8 : text[i + k] \in CodeChars}
    IN  IF starts = {} THEN NoMatch
        ELSE SubSeq(text, Min(starts), Min(starts) + 8)

extract_model_code_Last(text) ==
    LET starts == {i \in 1..Len(text) : MatchAt(text, i)}
        last == CHOOSE i \in starts : \A j \in starts : j <= i
    IN  IF starts = {} THEN NoMatch
        ELSE SubSeq(text, last, last + 9)

extract_model_code(text) ==
    LET starts == {i \in 1..Len(text) : MatchAt(text, i)}
    IN  IF starts = {} THEN NoMatch
        ELSE SubSeq(text, Min(starts), Min(starts) + 9)

----------------------------------------------------------------------------
(* The session record *)
EmptyCar ==
    [title |-> "", brand |-> "Hot Wheels", image |-> "", upc |-> "",
     model_code |-> <<>>]

----------------------------------------------------------------------------
(* base64.b64encode over the bytes of an ASCII string *)
UpperSeq == <<"A","B","C","D","E","F","G","H","I","J","K","L","M",
              "N","O","P","Q","R","S","T","U","V","W","X","Y","Z">>
LowerSeq == <<"a","b","c","d","e","f","g","h","i","j","k","l","m",
              "n","o","p","q","r","s","t","u","v","w","x","y","z">>
DigitSeq == <<"0","1","2","3","4","5","6","7","8","9">>

B64Alphabet == UpperSeq \o LowerSeq \o DigitSeq \o <<"+", "/">>

IndexOf(seq, c) == CHOOSE i \in 1..Len(seq) : seq[i] = c

\* code.encode("utf-8") of one ASCII character
Ord(c) ==
    IF c \in Letters THEN 64 + IndexOf(UpperSeq, c)
    ELSE IF c \in Digits THEN 47 + IndexOf(DigitSeq, c)
    ELSE IF c = "-" THEN 45
    ELSE IF c = " " THEN 32
    ELSE IF c = "\n" THEN 10
    ELSE 9

Sextet(n) == B64Alphabet[n + 1]

RECURSIVE b64encode(_)
b64encode(bytes) ==
    IF Len(bytes) = 0 THEN <<>>
    ELSE IF Len(bytes) = 1 THEN
        LET n == bytes[1] * 16
        IN  <<Sextet(n \div 64), Sextet(n % 64), "=", "=">>
    ELSE IF Len(bytes) = 2 THEN
        LET n == (bytes[1] * 256 + bytes[2]) * 4
        IN  <<Sextet(n \div 4096), Sextet((n \div 64) % 64), Sextet(n % 64), "=">>
    ELSE
        LET n == bytes[1] * 65536 + bytes[2] * 256 + bytes[3]
        IN  <<Sextet(n \div 262144), Sextet((n \div 4096) % 64),
              Sextet((n \div 64) % 64), Sextet(n % 64)>>
            \o b64encode(SubSeq(bytes, 4, Len(bytes)))

SplitFirst_Whole(code) == code

\* code.split("-")[0]
SplitFirst(code) ==
    LET dashes == {i \in 1..Len(code) : code[i] = "-"}
    IN  IF dashes = {} THEN code ELSE SubSeq(code, 1, Min(dashes) - 1)

\* str.strip()
Strip(s) ==
    LET keep == {i \in 1..Len(s) : s[i] \notin Whitespace}
    IN  IF keep = {} THEN <<>>
        ELSE SubSeq(s, Min(keep), CHOOSE j \in keep : \A k \in keep : k <= j)

SearchBase == "https://collecthw.com/hw/search/"

\* the URL search_collecthw builds: base path, then the encoded characters
SearchUrl(code) ==
    [base |-> SearchBase,
     encoded |-> b64encode([i \in 1..Len(Strip(SplitFirst(code))) |->
                              Ord(Strip(SplitFirst(code))[i])])]

\* " ".join(car_link.get_text().split()) on the link texts of ScrapeResponses
JoinSplit(raw) ==
    CASE raw = "  Toyota \n Supra " -> "Toyota Supra"
      [] raw = " \n" -> ""
      [] OTHER -> raw

\* what requests.get gives search_collecthw: an exception, or a status and a
\* page that has or lacks an <a href=".../hw/item/..."> with some text
ScrapeResponses ==
    { [kind |-> "neterr", status |-> 0,   link |-> FALSE, text |-> ""],
      [kind |-> "http",   status |-> 404, link |-> TRUE,  text |-> "Toyota Supra"],
      [kind |-> "http",   status |-> 200, link |-> FALSE, text |-> ""],
      [kind |-> "http",   status |-> 200, link |-> TRUE,  text |-> " \n"],
      [kind |-> "http",   status |-> 200, link |-> TRUE,  text |-> "  Toyota \n Supra "] }

\* search_collecthw returns (name, url); name None is the empty string here
\* (the caller only tests its truth value)
search_collecthw(code, resp) ==
    IF resp.kind = "http" /\ resp.status = 200 /\ resp.link
    THEN [name |-> JoinSplit(resp.text), url |-> SearchUrl(code)]
    ELSE [name |-> "", url |-> SearchUrl(code)]

----------------------------------------------------------------------------
(* lookup_upc *)
ItemDemon ==
    [title |-> "Speed Demon", brand |-> "Hot Wheels", images |-> <<"http://x/img.png">>]
ItemMazda ==
    [title |-> "Mazda RX-7", images |-> <<"http://x/rx7.png", "http://x/back.png">>]
ItemBare == [brand |-> ""]

\* what requests.get gives lookup_upc: an exception, or a status and a body
\* that is not JSON, JSON without "items", or JSON with a list of items
LookupResponses ==
    { [kind |-> "neterr", status |-> 0,   json |-> FALSE, hasItems |-> FALSE, items |-> <<>>],
      [kind |-> "http",   status |-> 200, json |-> FALSE, hasItems |-> FALSE, items |-> <<>>],
      [kind |-> "http",   status |-> 429, json |-> TRUE,  hasItems |-> FALSE, items |-> <<>>],
      [kind |-> "http",   status |-> 200, json |-> TRUE,  hasItems |-> TRUE,  items |-> <<>>],
      [kind |-> "http",   status |-> 200, json |-> TRUE,  hasItems |-> TRUE,  items |-> <<ItemBare>>],
      [kind |-> "http",   status |-> 200, json |-> TRUE,  hasItems |-> TRUE,  items |-> <<ItemDemon>>],
      [kind |-> "http",   status |-> 200, json |-> TRUE,  hasItems |-> TRUE,  items |-> <<ItemMazda, ItemDemon>>],
      [kind |-> "http",   status |-> 500, json |-> TRUE,  hasItems |-> TRUE,  items |-> <<ItemDemon>>] }

\* item.get(key, default)
ItemGet(item, key, default) == IF key \in DOMAIN item THEN item[key] ELSE default

NotFound(upc_code) ==
    [title |-> "", brand |-> "Hot Wheels", image |-> "", upc |-> upc_code]

lookup_upc(upc_code, resp) ==
    IF resp.kind = "http" /\ resp.json /\ resp.hasItems /\ Len(resp.items) > 0
    THEN LET item == resp.items[1]
         IN  [title |-> ItemGet(item, "title", ""),
              brand |-> ItemGet(item, "brand", "Hot Wheels"),
              image |-> IF Len(ItemGet(item, "images", <<>>)) > 0
                        THEN item.images[1] ELSE "",
              upc   |-> upc_code]
    ELSE NotFound(upc_code)

Update_NoImage(rec, result) ==
    [rec EXCEPT !.title = result.title, !.brand = result.brand,
                !.upc = result.upc]

\* dict.update: every key of the result replaces the record's value
Update(rec, result) ==
    [rec EXCEPT !.title = result.title, !.brand = result.brand,
                !.image = result.image, !.upc = result.upc]

----------------------------------------------------------------------------
(* save_to_sheet *)
ImageFormula_Always(image) == <<"=IMAGE(\"", image, "\")">>

\* the f-string =IMAGE("url"), as its pieces; the empty string has no piece
ImageFormula(image) ==
    IF image # "" THEN <<"=IMAGE(\"", image, "\")">> ELSE <<>>

SheetRow(c) == <<c.title, c.brand, ImageFormula(c.image), c.upc, c.model_code>>

\* get_sheet_connection gives a sheet or None; append_row returns or raises
SheetOutcomes == {"ok", "noconn", "apperr"}

\* the reason strings of lines 29, 34 and 36, as their pieces
NoMsg == <<>>
ConnectMsg == <<"Error: Could not connect to Google Sheet.">>
CloudMsg == <<"Cloud Error: ", "exception text">>
ParkedMsg(title) == <<"Parked '", title, "'!">>

save_to_sheet_SwallowError(c, rows, outcome) ==
    IF outcome = "noconn"
    THEN [success |-> FALSE, msg |-> ConnectMsg, rows |-> rows]
    ELSE IF outcome = "apperr"
    THEN [success |-> TRUE, msg |-> ParkedMsg(c.title), rows |-> rows]
    ELSE [success |-> TRUE, msg |-> ParkedMsg(c.title),
          rows |-> Append(rows, SheetRow(c))]

save_to_sheet_Dedup(c, rows, outcome) ==
    IF outcome = "noconn"
    THEN [success |-> FALSE, msg |-> ConnectMsg, rows |-> rows]
    ELSE IF outcome = "apperr"
    THEN [success |-> FALSE, msg |-> CloudMsg, rows |-> rows]
    ELSE [success |-> TRUE, msg |-> ParkedMsg(c.title),
          rows |-> IF \E i \in 1..Len(rows) : rows[i][4] = c.upc
                   THEN rows ELSE Append(rows, SheetRow(c))]

\* save_to_sheet returns (success, reason); rows is the sheet afterwards
save_to_sheet(c, rows, outcome) ==
    IF outcome = "noconn"
    THEN [success |-> FALSE, msg |-> ConnectMsg, rows |-> rows]
    ELSE IF outcome = "apperr"
    THEN [success |-> FALSE, msg |-> CloudMsg, rows |-> rows]
    ELSE [success |-> TRUE, msg |-> ParkedMsg(c.title),
          rows |-> Append(rows, SheetRow(c))]

----------------------------------------------------------------------------
(* Uploaded files: what Image.open, pyzbar.decode and pytesseract make of them *)
Upc1 == "012345678905"
Upc2 == "887961950045"

TextNoHyphen == <<"J","B","B","4","9","N","7","C","5">>
TextOneCode == <<"H","W"," ","J","B","B","4","9","-","N","7","C","5","\n">>
TextTwoCodes ==
    <<"x","H","C","T","1","2","-","N","5","2","1"," ",
      "J","B","B","4","9","-","N","7","C","5">>

Images ==
    << [readable |-> FALSE, barcodes |-> <<>>,           text |-> <<>>],
       [readable |-> TRUE,  barcodes |-> <<>>,           text |-> TextNoHyphen],
       [readable |-> TRUE,  barcodes |-> <<Upc1>>,       text |-> <<>>],
       [readable |-> TRUE,  barcodes |-> <<Upc2, Upc1>>, text |-> TextTwoCodes],
       [readable |-> TRUE,  barcodes |-> <<>>,           text |-> TextOneCode] >>

NoFile == 0
Files == 1..Len(Images)

(* What the user can type into the three text inputs *)
TitleInputs == {"", "My Car"}
BrandInputs == {"Mainline"}
CodeInputs == {<<"G","H","B","3","7","-","N","5","2","1">>}

----------------------------------------------------------------------------
(* One script run *)
NoUrl == [base |-> "", encoded |-> <<>>]
NoLookup == [kind |-> "none", status |-> 0, json |-> FALSE, hasItems |-> FALSE, items |-> <<>>]
NoScrape == [kind |-> "none", status |-> 0, link |-> FALSE, text |-> ""]

\* locals of a run that has just started
FreshRun ==
    [trigger |-> "start",        \* what started the run
     ran |-> FALSE,              \* the `if uploaded_file:` block was entered
     error |-> "none",           \* where the except clause of line 156 caught
     decoded |-> FALSE,          \* decoded_objects was non-empty
     found_upc |-> "",
     lookupResp |-> NoLookup,    \* what the catalog answered
     api_result |-> NotFound(""),
     text |-> <<>>,              \* what pytesseract read (line 99)
     found_code |-> NoMatch,
     searched |-> FALSE,         \* search_collecthw was called
     scrapeResp |-> NoScrape,    \* what collecthw.com answered
     hw_name |-> "",
     link |-> NoUrl,
     linkShown |-> "none",       \* "verify" (line 150), "fallback" (line 154)
     save |-> "none",            \* outcome of the Save click of this run
     msg |-> NoMsg,              \* the reason save_to_sheet returned
     rerun |-> FALSE]            \* the run was started by st.rerun()

\* locals do not outlive the run; the outcome of the save stays on screen
EndOfRun(r) ==
    [FreshRun EXCEPT !.trigger = "none", !.save = r.save, !.msg = r.msg,
                     !.rerun = r.rerun]

Init ==
    /\ car = EmptyCar
    /\ uploaded = NoFile
    /\ widgets = [title |-> [def |-> "", val |-> ""],
                  brand |-> [def |-> "Hot Wheels", val |-> "Hot Wheels"],
                  model_code |-> [def |-> <<>>, val |-> <<>>]]
    /\ clicked = FALSE
    /\ sheet = <<>>
    /\ pc = "open"
    /\ run = FreshRun
    /\ pre = EmptyCar
    /\ interactions = 0

----------------------------------------------------------------------------
(* User interactions: each one starts a script run *)
StartRun(trigger) ==
    /\ pc = "idle"
    /\ interactions < MaxInteractions
    /\ interactions' = interactions + 1
    /\ pc' = "open"
    /\ run' = [FreshRun EXCEPT !.trigger = trigger]
    /\ pre' = car
    /\ UNCHANGED <<car, sheet>>

Upload ==
    /\ StartRun("upload")
    /\ \E f \in Files : f # uploaded /\ uploaded' = f
    /\ clicked' = FALSE
    /\ UNCHANGED widgets

RemoveFile ==
    /\ StartRun("remove")
    /\ uploaded # NoFile
    /\ uploaded' = NoFile
    /\ clicked' = FALSE
    /\ UNCHANGED widgets

EditTitle ==
    /\ StartRun("edit")
    /\ \E v \in TitleInputs :
          /\ v # widgets.title.val
          /\ widgets' = [widgets EXCEPT !.title.val = v]
    /\ clicked' = FALSE
    /\ UNCHANGED uploaded

EditBrand ==
    /\ StartRun("edit")
    /\ \E v \in BrandInputs :
          /\ v # widgets.brand.val
          /\ widgets' = [widgets EXCEPT !.brand.val = v]
    /\ clicked' = FALSE
    /\ UNCHANGED uploaded

EditCode ==
    /\ StartRun("edit")
    /\ \E v \in CodeInputs :
          /\ v # widgets.model_code.val
          /\ widgets' = [widgets EXCEPT !.model_code.val = v]
    /\ clicked' = FALSE
    /\ UNCHANGED uploaded

ClickSave ==
    /\ StartRun("click")
    /\ Len(sheet) < MaxRows
    /\ clicked' = TRUE
    /\ UNCHANGED <<uploaded, widgets>>

----------------------------------------------------------------------------
(* The script, lines 119-189 *)

\* lines 119-126: Image.open, exif_transpose, thumbnail, st.image
OpenImage ==
    /\ pc = "open"
    /\ IF uploaded = NoFile
       THEN /\ pc' = "edit"
            /\ run' = run
       ELSE IF ~Images[uploaded].readable
       THEN /\ pc' = "edit"
            /\ run' = [run EXCEPT !.ran = TRUE, !.error = "open"]
       ELSE /\ pc' = "upc"
            /\ run' = [run EXCEPT !.ran = TRUE]
    /\ UNCHANGED <<car, uploaded, widgets, clicked, sheet, pre, interactions>>

UpcStage_Last(c, img, resp) ==
    IF img.barcodes # <<>>
    THEN Update(c, lookup_upc(img.barcodes[Len(img.barcodes)], resp))
    ELSE c

\* lines 129-134 on the record: on a barcode, the answer of lookup_upc for
\* the first decoded payload replaces the record's four fields
UpcStage(c, img, resp) ==
    IF img.barcodes # <<>>
    THEN Update(c, lookup_upc(img.barcodes[1], resp))
    ELSE c

\* lines 129-134: decode; on a barcode, lookup_upc and current_car.update
ScanUPC ==
    /\ pc = "upc"
    /\ \/ \* pyzbar raises: caught at line 156
          /\ pc' = "edit"
          /\ run' = [run EXCEPT !.error = "decode"]
          /\ car' = car
       \/ /\ Images[uploaded].barcodes = <<>>
          /\ pc' = "text"
          /\ run' = run
          /\ car' = UpcStage(car, Images[uploaded], NoLookup)
       \/ /\ Images[uploaded].barcodes # <<>>
          /\ \E resp \in LookupResponses :
                LET found_upc == Images[uploaded].barcodes[1]
                IN  /\ car' = UpcStage(car, Images[uploaded], resp)
                    /\ run' = [run EXCEPT !.decoded = TRUE,
                                          !.found_upc = found_upc,
                                          !.lookupResp = resp,
                                          !.api_result = lookup_upc(found_upc, resp)]
          /\ pc' = "text"
    /\ UNCHANGED <<uploaded, widgets, clicked, sheet, pre, interactions>>

SetModelCode_Append(c, found_code) ==
    [c EXCEPT !.model_code = c.model_code \o found_code]

SetModelCode_KeepExisting(c, found_code) ==
    IF c.model_code = <<>> THEN [c EXCEPT !.model_code = found_code] ELSE c

\* line 140
SetModelCode(c, found_code) == [c EXCEPT !.model_code = found_code]

TitleUnknown_Always(c) == TRUE

\* line 143: the guard of the collecthw search
TitleUnknown(c) == c.title = ""

\* line 149
SetTitle(c, hw_name) == [c EXCEPT !.title = hw_name]

FoundCode_OrRecord(c, img) ==
    IF extract_model_code(img.text) = NoMatch THEN c.model_code
    ELSE extract_model_code(img.text)

\* line 137: found_code comes from the image of this run alone
FoundCode(c, img) == extract_model_code(img.text)

\* lines 137-149 on the record: on a code, store it and, while the title is
\* unknown, take the name search_collecthw found
TextStage(c, img, resp) ==
    LET found_code == FoundCode(c, img)
    IN  IF found_code = NoMatch THEN c
        ELSE IF ~TitleUnknown(SetModelCode(c, found_code))
        THEN SetModelCode(c, found_code)
        ELSE IF search_collecthw(found_code, resp).name # ""
        THEN SetTitle(SetModelCode(c, found_code),
                      search_collecthw(found_code, resp).name)
        ELSE SetModelCode(c, found_code)

\* lines 137-154: extract_model_code; on a code, store it and, while the
\* title is unknown, search_collecthw and show its link
ScanText ==
    /\ pc = "text"
    /\ \/ \* pytesseract raises: caught at line 156
          /\ run' = [run EXCEPT !.error = "ocr"]
          /\ car' = car
       \/ LET found_code == FoundCode(car, Images[uploaded])
              ocr == [run EXCEPT !.text = Images[uploaded].text]
          IN  IF found_code = NoMatch
              THEN /\ run' = ocr
                   /\ car' = TextStage(car, Images[uploaded], NoScrape)
              ELSE IF ~TitleUnknown(SetModelCode(car, found_code))
              THEN /\ run' = [ocr EXCEPT !.found_code = found_code]
                   /\ car' = TextStage(car, Images[uploaded], NoScrape)
              ELSE \E resp \in ScrapeResponses :
                     LET hw == search_collecthw(found_code, resp)
                     IN  /\ run' = [ocr EXCEPT
                                      !.found_code = found_code,
                                      !.searched = TRUE,
                                      !.scrapeResp = resp,
                                      !.hw_name = hw.name,
                                      !.link = hw.url,
                                      !.linkShown =
                                          IF hw.name # "" THEN "verify"
                                          ELSE IF hw.url # NoUrl THEN "fallback"
                                          ELSE "none"]
                         /\ car' = TextStage(car, Images[uploaded], resp)
    /\ pc' = "edit"
    /\ UNCHANGED <<uploaded, widgets, clicked, sheet, pre, interactions>>

\* st.text_input(label, value=cur) without a key: the widget keeps what the
\* user typed as long as it is built with the same default; built with
\* another default it is a new widget showing that default
TextInput(w, cur) == IF w.def = cur THEN w ELSE [def |-> cur, val |-> cur]

\* lines 160-175: the three inputs are built from the record and their
\* values written back to it
DisplayEdit ==
    /\ pc = "edit"
    /\ widgets' = [title |-> TextInput(widgets.title, car.title),
                   brand |-> TextInput(widgets.brand, car.brand),
                   model_code |-> TextInput(widgets.model_code, car.model_code)]
    /\ car' = [car EXCEPT !.title = widgets'.title.val,
                          !.brand = widgets'.brand.val,
                          !.model_code = widgets'.model_code.val]
    /\ pc' = "save"
    /\ UNCHANGED <<uploaded, clicked, sheet, run, pre, interactions>>

HasName_Unchecked(c) == TRUE

\* line 178: the record may be saved
HasName(c) == c.title # ""

AfterSave_Keep(c) == c

\* lines 184-186: the record after a successful save
AfterSave(c) == EmptyCar

AfterFailedSave_Reset(c) == EmptyCar

\* lines 188-189: the record after a failed save
AfterFailedSave(c) == c

\* lines 177-189: the Save button
SaveHandler ==
    /\ pc = "save"
    /\ IF ~clicked
       THEN /\ pc' = "idle"
            /\ run' = EndOfRun(run)
            /\ pre' = car
            /\ UNCHANGED <<car, sheet, clicked>>
       ELSE IF ~HasName(car)
       THEN /\ pc' = "idle"
            /\ run' = EndOfRun([run EXCEPT !.save = "invalid"])
            /\ pre' = car
            /\ clicked' = FALSE
            /\ UNCHANGED <<car, sheet>>
       ELSE \E outcome \in SheetOutcomes :
              LET r == save_to_sheet(car, sheet, outcome)
              IN  IF r.success
                  THEN \* reset and st.rerun(): the script starts again
                       /\ sheet' = r.rows
                       /\ car' = AfterSave(car)
                       /\ pc' = "open"
                       /\ run' = [FreshRun EXCEPT !.trigger = "rerun", !.save = "ok",
                                                   !.msg = r.msg, !.rerun = TRUE]
                       /\ pre' = car'
                       /\ clicked' = FALSE
                  ELSE /\ sheet' = r.rows
                       /\ car' = AfterFailedSave(car)
                       /\ pc' = "idle"
                       /\ run' = EndOfRun([run EXCEPT !.save = outcome, !.msg = r.msg])
                       /\ pre' = car'
                       /\ clicked' = FALSE
    /\ UNCHANGED <<uploaded, widgets, interactions>>

Next ==
    \/ Upload
    \/ RemoveFile
    \/ EditTitle
    \/ EditBrand
    \/ EditCode
    \/ ClickSave
    \/ OpenImage
    \/ ScanUPC
    \/ ScanText
    \/ DisplayEdit
    \/ SaveHandler

Spec == Init /\ [][Next]_vars

----------------------------------------------------------------------------
(* Properties *)

\* the pipeline block of a run has finished (normally or through the except
\* clause) and the inputs have not been drawn yet
PipelineDone == pc = "edit" /\ run.ran

MergedFields == {"title", "brand", "image", "upc"}

\* C1: the writer is never reached with an empty title: a Save click on a
\* record whose title is "" is answered with the validation message and
\* leaves the sheet alone, and every row of the sheet has a non-empty first
\* column.
C1_EmptyTitleNeverSaved ==
    /\ [](\A i \in 1..Len(sheet) : sheet[i][1] # "")
    /\ [][(pc = "save" /\ clicked /\ car.title = "")
            => (run'.save = "invalid" /\ sheet' = sheet)]_vars

C1_Witness == pc = "idle" /\ run.save = "invalid" /\ car.title = "" /\ sheet = <<>>

\* C2: a pipeline stage changes one of title, brand, image, upc only from
\* empty to non-empty.
C2_MergeFillsEmptyOnly ==
    [][(pc = "upc" \/ pc = "text")
         => (\A f \in MergedFields :
               car'[f] # car[f] => (car[f] = "" /\ car'[f] # ""))]_vars

\* C3: when the catalog lookup of a run returned a non-empty title, the
\* record's title at the end of the pipeline is that title and the
\* model-code source was not consulted, whatever it would have answered.
C3_CatalogTitleWins ==
    (PipelineDone /\ run.decoded /\ run.api_result.title # "")
        => (car.title = run.api_result.title /\ ~run.searched)

C3_Witness ==
    /\ PipelineDone
    /\ run.decoded
    /\ run.api_result.title = "Mazda RX-7"
    /\ run.found_code # NoMatch
    /\ car.title = "Mazda RX-7"

\* C4: when the run started by st.rerun() after a successful save has
\* finished, the record is the empty-default record.
C4_DefaultsAfterPersist ==
    (pc = "idle" /\ run.rerun) => car = EmptyCar

\* C5: a Save click that is rejected for an empty title, or that the writer
\* answers with a failure, leaves the five fields of the record as they
\* were, appends nothing, and the session waits for the next interaction.
C5_FailedSaveKeepsRecord ==
    [][(pc = "save" /\ clicked
          /\ (run'.save = "invalid" \/ run'.save = "noconn" \/ run'.save = "apperr"))
         => (car' = car /\ sheet' = sheet /\ pc' = "idle")]_vars

C5_Witness ==
    /\ pc = "idle"
    /\ (run.save = "noconn" \/ run.save = "apperr")
    /\ car.title # ""
    /\ car.upc # ""

\* the four failures the claim lists, for each source
LookupFailed(resp) ==
    \/ resp.kind = "neterr"
    \/ ~resp.json
    \/ resp.status # 200
    \/ ~resp.hasItems
    \/ resp.items = <<>>

ScrapeFailed(resp) ==
    \/ resp.kind = "neterr"
    \/ resp.status # 200
    \/ ~resp.link

\* C6: a source that met a network failure, a malformed response, a
\* non-200 status or a response without the expected structure answers
\* "not found", and the run goes on to the next stage without an error.
C6_SourcesDegradeToNotFound ==
    /\ (run.decoded /\ LookupFailed(run.lookupResp))
          => (run.api_result = NotFound(run.found_upc) /\ run.error # "decode")
    /\ (PipelineDone /\ run.searched /\ ScrapeFailed(run.scrapeResp))
          => (run.hw_name = "" /\ car.title = "" /\ run.error = "none")

\* the pipeline ran to its end on a file without barcode and without code
NoSignalRun ==
    /\ PipelineDone
    /\ run.error = "none"
    /\ Images[uploaded].barcodes = <<>>
    /\ \A i \in 1..Len(Images[uploaded].text) : ~MatchAt(Images[uploaded].text, i)

\* C7 as stated: after every such run scan_code and model_code are empty and
\* no field was assigned.
C7_NoSignalLeavesCodesEmpty ==
    NoSignalRun => (car.upc = "" /\ car.model_code = <<>> /\ car = pre)

\* C7 amended: such a run assigns no field, so every field, scan_code and
\* model_code among them, has the value it had before the run; both are
\* empty when the run started from the empty-default record.
C7_NoSignalAssignsNothing ==
    NoSignalRun
        => (/\ car = pre
            /\ (pre = EmptyCar => (car.upc = "" /\ car.model_code = <<>>)))

C7_Witness ==
    /\ NoSignalRun
    /\ Images[uploaded].text = TextNoHyphen
    /\ pre.upc # ""
    /\ car = pre

\* C8: a run whose pipeline was aborted by an error leaves the record as it
\* was when the run started.
C8_AbortedRunChangesNothing ==
    (PipelineDone /\ run.error # "none") => car = pre

\* the whole pipeline (lines 129-149) on a record, given the file and what
\* the two sources answer
Pipeline(c, img, lresp, sresp) == TextStage(UpcStage(c, img, lresp), img, sresp)

\* C9: running the pipeline a second time on the same file with the same
\* source answers leaves the record it produced unchanged.
C9_MergeIdempotent ==
    (PipelineDone /\ run.error = "none")
        => \A sresp \in (IF run.searched THEN {run.scrapeResp} ELSE ScrapeResponses) :
              Pipeline(car, Images[uploaded], run.lookupResp, sresp) = car

C9_Witness ==
    /\ PipelineDone
    /\ run.error = "none"
    /\ run.decoded
    /\ run.found_code # NoMatch
    /\ pre.title # ""
    /\ pre.upc = run.found_upc
    /\ pre.model_code = run.found_code
    /\ car = pre

\* C10: a row is added only as the five columns title, brand, image
\* formula, upc, model_code of the record being saved, the formula wrapping
\* a non-empty image URL and being empty for an empty one.
C10_RowIsFiveColumns ==
    [][sheet' # sheet
         => sheet' = Append(sheet,
                <<car.title, car.brand,
                  IF car.image = "" THEN <<>> ELSE <<"=IMAGE(\"", car.image, "\")">>,
                  car.upc, car.model_code>>)]_vars

C10_Witness ==
    /\ Len(sheet) = 2
    /\ sheet[1] = <<"Mazda RX-7", "Hot Wheels",
                     <<"=IMAGE(\"", "http://x/rx7.png", "\")">>, Upc2,
                     <<"H","C","T","1","2","-","N","5","2","1">>>>
    /\ sheet[2] = <<"Toyota Supra", "Hot Wheels", <<>>, Upc2,
                     <<"H","C","T","1","2","-","N","5","2","1">>>>

\* C11: whatever the connection and the append do, save_to_sheet returns a
\* success flag and a reason; on a failure the flag is false and the sheet
\* is as before, and the flag is true only when the row has been appended
\* after the rows that were there.
C11_WriterReturnsPair ==
    (pc = "save" /\ clicked /\ HasName(car))
        => \A outcome \in SheetOutcomes :
              LET r == save_to_sheet(car, sheet, outcome)
              IN  /\ r.success \in BOOLEAN
                  /\ r.msg # NoMsg
                  /\ (outcome # "ok") => (~r.success /\ r.rows = sheet)
                  /\ r.success => (/\ Len(r.rows) = Len(sheet) + 1
                                   /\ SubSeq(r.rows, 1, Len(sheet)) = sheet
                                   /\ r.rows[Len(r.rows)][1] = car.title)

C11_Witness ==
    /\ pc = "idle"
    /\ run.save = "apperr"
    /\ run.msg = CloudMsg
    /\ sheet = <<>>
    /\ car.title = "My Car"

\* C12: a successful save adds exactly one row after the rows that were
\* there, no step changes or removes a row, and a row with the same scan
\* code already in the sheet does not stop the save.
C12_AppendOnly ==
    [][/\ (pc = "save" /\ clicked /\ run'.save = "ok")
            => Len(sheet') = Len(sheet) + 1
       /\ sheet' # sheet
            => (/\ Len(sheet') = Len(sheet) + 1
                /\ SubSeq(sheet', 1, Len(sheet)) = sheet)]_vars

C12_Witness ==
    /\ Len(sheet) = 2
    /\ sheet[1] = sheet[2]
    /\ sheet[1][4] = Upc1

\* the record and the row of the end-to-end scenario
DemonRecord ==
    [title |-> "Speed Demon", brand |-> "Hot Wheels", image |-> "http://x/img.png",
     upc |-> "012345678905", model_code |-> <<>>]

DemonRow ==
    <<"Speed Demon", "Hot Wheels", <<"=IMAGE(\"", "http://x/img.png", "\")">>,
      "012345678905", <<>>>>

\* the catalog answered 200 with the Speed Demon item first
CatalogSaysDemon(resp) ==
    /\ resp.kind = "http"
    /\ resp.status = 200
    /\ resp.json
    /\ resp.hasItems
    /\ Len(resp.items) > 0
    /\ resp.items[1] = [title |-> "Speed Demon", brand |-> "Hot Wheels",
                        images |-> <<"http://x/img.png">>]

\* C13: from the empty-default record, a file with barcode 012345678905 and
\* no matchable text, for which the catalog answers Speed Demon / Hot Wheels
\* / http://x/img.png, gives the record {Speed Demon, Hot Wheels,
\* http://x/img.png, 012345678905, ""} at the end of the pipeline, and the
\* writer turns that record into the row [Speed Demon, Hot Wheels,
\* =IMAGE("http://x/img.png"), 012345678905, ""] after the existing rows.
C13_EndToEnd ==
    /\ (/\ PipelineDone
        /\ run.error = "none"
        /\ pre = EmptyCar
        /\ Images[uploaded].barcodes = <<"012345678905">>
        /\ \A i \in 1..Len(Images[uploaded].text) : ~MatchAt(Images[uploaded].text, i)
        /\ CatalogSaysDemon(run.lookupResp))
          => car = DemonRecord
    /\ (pc = "save" /\ clicked /\ car = DemonRecord)
          => /\ HasName(car)
             /\ save_to_sheet(car, sheet, "ok").success
             /\ save_to_sheet(car, sheet, "ok").rows = Append(sheet, DemonRow)

C13_Witness ==
    /\ pc = "idle"
    /\ uploaded = 3
    /\ run.save = "ok"
    /\ sheet = <<DemonRow>>

----------------------------------------------------------------------------
(* The matcher on its own: extract_model_code applied to extracted texts
   made of up to MaxTokens pieces *)
Tokens ==
    {<<"J","B","B","4","9","-","N","7","C","5">>,
     <<"H","C","T","1","2","-","N","5","2","1">>,
     <<"J","B","B","4","9">>,
     <<"N","7","C","5">>,
     <<"-">>,
     <<" ">>,
     <<"x">>}

RECURSIVE Concat(_)
Concat(pieces) ==
    IF pieces = <<>> THEN <<>>
    ELSE Head(pieces) \o Concat(Tail(pieces))

Texts == {Concat(ps) : ps \in UNION {[1..n -> Tokens] : n \in 0..MaxTokens}}

MatcherInit ==
    /\ car = EmptyCar
    /\ uploaded = NoFile
    /\ widgets = [title |-> [def |-> "", val |-> ""],
                  brand |-> [def |-> "Hot Wheels", val |-> "Hot Wheels"],
                  model_code |-> [def |-> <<>>, val |-> <<>>]]
    /\ clicked = FALSE
    /\ sheet = <<>>
    /\ pc = "text"
    /\ \E t \in Texts : run = [FreshRun EXCEPT !.text = t]
    /\ pre = EmptyCar
    /\ interactions = 0

\* found_code = extract_model_code(img) on the extracted text
MatchText ==
    /\ pc = "text"
    /\ run' = [run EXCEPT !.found_code = extract_model_code(run.text)]
    /\ pc' = "edit"
    /\ UNCHANGED <<car, uploaded, widgets, clicked, sheet, pre, interactions>>

MatcherNext == MatchText

SpecMatcher == MatcherInit /\ [][MatcherNext]_vars

\* s has the form 5 characters of A-Z or 0-9, a hyphen, 4 such characters
IsCode(s) ==
    /\ Len(s) = 10
    /\ s[6] = "-"
    /\ \A k \in {1, 2, 3, 4, 5, 7, 8, 9, 10} : s[k] \in Letters \/ s[k] \in Digits

\* the positions of text where a substring of the form starts
CodeStarts(text) ==
    {i \in 1..Len(text) : i + 9 <= Len(text) /\ IsCode(SubSeq(text, i, i + 9))}

\* C14: for every extracted text the matcher returns the substring of the
\* form [A-Z0-9]{5}-[A-Z0-9]{4} that starts leftmost; a text with no such
\* substring (JBB49N7C5 without the hyphen) gives no match; a text with two
\* candidate codes gives the leftmost one.
C14_LeftmostMatch ==
    (pc = "edit")
        => /\ IF CodeStarts(run.text) = {}
              THEN run.found_code = NoMatch
              ELSE \E i \in CodeStarts(run.text) :
                      /\ \A j \in CodeStarts(run.text) : i <= j
                      /\ run.found_code = SubSeq(run.text, i, i + 9)
           /\ run.text = <<"J","B","B","4","9","N","7","C","5">>
                 => run.found_code = NoMatch
           /\ run.text = <<"x"," ","J","B","B","4","9","-","N","7","C","5","x">>
                 => run.found_code = <<"J","B","B","4","9","-","N","7","C","5">>

\* two candidate codes in the text, the leftmost returned
C14_Witness ==
    /\ pc = "edit"
    /\ run.text = <<"x","H","C","T","1","2","-","N","5","2","1"," ",
                    "J","B","B","4","9","-","N","7","C","5">>
    /\ run.found_code = <<"H","C","T","1","2","-","N","5","2","1">>

\* the record's title when the model-code source is reached in this run:
\* the catalog's answer after a lookup, the title at the start otherwise
TitleBeforeSearch == IF run.decoded THEN run.api_result.title ELSE pre.title

\* C15: a source is queried only if its input is available and the record's
\* title is empty at that moment: the catalog lookup only after a decoded
\* scan code with an empty title, the model-code source only with a matched
\* code and an empty title.
C15_SourcesOnlyWhileTitleUnknown ==
    /\ (run.lookupResp # NoLookup) => (run.decoded /\ pre.title = "")
    /\ run.searched => (run.found_code # NoMatch /\ TitleBeforeSearch = "")

\* C16: one upload triggers exactly one pipeline run: only the script run
\* started by the upload itself opens the image, decodes, extracts or
\* queries a source; the runs started by an edit, a click on save or the
\* rerun after a successful save do none of it.
C16_OneRunPerUpload ==
    /\ run.ran => run.trigger = "upload"
    /\ (run.decoded \/ run.lookupResp # NoLookup \/ run.searched)
          => run.trigger = "upload"

\* base64 of the part before the hyphen, for the codes of Images
\* (JBB49 -> SkJCNDk=, HCT12 -> SENUMTI=)
ExpectedEncoded(code) ==
    CASE code = <<"J","B","B","4","9","-","N","7","C","5">>
            -> <<"S","k","J","C","N","D","k","=">>
      [] code = <<"H","C","T","1","2","-","N","5","2","1">>
            -> <<"S","E","N","U","M","T","I","=">>
      [] OTHER -> <<>>

\* C17: whenever the model-code source was tried in a run and gave no title
\* (no result element, non-200 status, exception), the run shows the user
\* the URL the source built, base path plus base64 of the code's part
\* before the hyphen, and the record's title stays empty.
C17_FallbackLink ==
    (PipelineDone /\ run.searched /\ run.hw_name = "")
        => /\ run.linkShown = "fallback"
           /\ run.link.base = "https://collecthw.com/hw/search/"
           /\ run.link.encoded = ExpectedEncoded(run.found_code)
           /\ run.link.encoded # <<>>
           /\ car.title = ""

C17_Witness ==
    /\ PipelineDone
    /\ run.searched
    /\ run.scrapeResp.kind = "http"
    /\ run.scrapeResp.status = 404
    /\ run.found_code = <<"H","C","T","1","2","-","N","5","2","1">>
    /\ run.linkShown = "fallback"
    /\ car.title = ""

\* the barcode stage of this run is over and was not aborted
UpcStageDone ==
    \/ pc = "text"
    \/ PipelineDone /\ run.error \in {"none", "ocr"}

\* C18: with one or more decoded barcodes only the first is used: after
\* the barcode stage the record's upc is the first payload, whatever the
\* catalog answered (an item, nothing, a failure). With no barcode nothing
\* is reported as an error, upc is not assigned, no lookup is issued and
\* the run goes on to text extraction.
C18_FirstBarcodeOnly ==
    UpcStageDone =>
        IF Images[uploaded].barcodes # <<>>
        THEN /\ run.decoded
             /\ run.found_upc = Images[uploaded].barcodes[1]
             /\ run.lookupResp \in LookupResponses
             /\ car.upc = Images[uploaded].barcodes[1]
        ELSE /\ ~run.decoded
             /\ run.lookupResp = NoLookup
             /\ car.upc = pre.upc
             /\ run.error # "decode"
             /\ (PipelineDone /\ run.error = "none")
                   => run.text = Images[uploaded].text

\* two barcodes in the image, the catalog lookup failed, the first is kept
C18_Witness ==
    /\ PipelineDone
    /\ run.error = "none"
    /\ Images[uploaded].barcodes = <<"887961950045", "012345678905">>
    /\ run.lookupResp.kind = "neterr"
    /\ car.upc = "887961950045"

\* the leftmost substring of the form in text (text has one)
LeftmostCode(text) ==
    LET i == CHOOSE i \in CodeStarts(text) : \A j \in CodeStarts(text) : i <= j
    IN  SubSeq(text, i, i + 9)

\* C19: search_collecthw is invoked in a run only if the matcher found a
\* code in the image of that run, and with that code; a model_code already
\* in the record (earlier run, typed by the user) triggers no search, even
\* when the title is empty.
C19_SearchOnlyOnFreshMatch ==
    run.searched
        => /\ CodeStarts(Images[uploaded].text) # {}
           /\ run.found_code = LeftmostCode(Images[uploaded].text)
           /\ run.link.encoded = ExpectedEncoded(LeftmostCode(Images[uploaded].text))
           /\ run.scrapeResp \in ScrapeResponses

\* a typed model code, an empty title, an image without a code: no search
C19_Witness ==
    /\ PipelineDone
    /\ run.error = "none"
    /\ pre.model_code = <<"G","H","B","3","7","-","N","5","2","1">>
    /\ car.title = ""
    /\ CodeStarts(Images[uploaded].text) = {}
    /\ ~run.searched
    /\ run.scrapeResp = NoScrape

\* C20: at the end of every pipeline run in which the matcher found a code
\* the record's model_code is that code, whatever model_code the record
\* held before (from an earlier image or typed by the user); at the end of
\* a run without a match model_code is what it was when the run started.
C20_ModelCodeFollowsMatch ==
    (PipelineDone /\ run.error = "none")
        => IF CodeStarts(Images[uploaded].text) # {}
           THEN /\ run.found_code = LeftmostCode(Images[uploaded].text)
                /\ car.model_code = LeftmostCode(Images[uploaded].text)
           ELSE /\ run.found_code = NoMatch
                /\ car.model_code = pre.model_code

\* a typed model code replaced by the code matched in the uploaded image
C20_Witness ==
    /\ PipelineDone
    /\ run.error = "none"
    /\ pre.model_code = <<"G","H","B","3","7","-","N","5","2","1">>
    /\ run.found_code = <<"J","B","B","4","9","-","N","7","C","5">>
    /\ car.model_code = <<"J","B","B","4","9","-","N","7","C","5">>

====
